---- MODULE Spec2Model ----
(***************************************************************************)
(* Autodocx: the multi-language source analysis pipeline of               *)
(* app/utils/ast_parser.py (extractors, _summarize_file and the           *)
(* repository walk parse_repo_ast_structured).                             *)
(*                                                                         *)
(* A repository tree is the sequence of entries repo_path.rglob("*")      *)
(* yields, in enumeration order.  A file's text is abstracted to what the  *)
(* extractors read from it: the sequences of names the syntax tree walk    *)
(* or the regular expressions find, in the order they are found, and the  *)
(* exception (if any) that decoding/parsing raises.                        *)
(***************************************************************************)
EXTENDS Integers, Sequences, FiniteSets, TLC

VARIABLES
    tree,           \* the entries of the repository, in rglob order
    max_files,      \* the budget argument of the walk
    pc,             \* "loop": inside the for loop; "done": the walk returned
    i,              \* enumerate() index of the next entry
    files,          \* local: list of file summaries
    scanned,        \* local counter
    skipped,        \* local counter
    errors,         \* local counter
    by_language,    \* local dict language -> count
    largest_files,  \* local list of (path, size) candidates
    result,         \* the returned dict, <<>> until the walk returns
    calls,          \* number of calls of the walk started so far (1 or 2)
    first,          \* the result of the first call, <<>> until the second starts
    budget_arg,     \* the max_files argument the caller passes, None if omitted
    flat_pc,        \* parse_repo_ast: "idle", "loop" or "done"
    flat_i,         \* parse_repo_ast: enumerate() index of the next entry
    results,        \* parse_repo_ast: local list of display strings
    archive,        \* secure_extract: zf.infolist(), the members of the zip
    zip_pc,         \* secure_extract: "idle", "check", "raised" or "extracted"
    zip_k,          \* secure_extract: number of members checked
    total_uncompressed, \* secure_extract: local running size
    written,        \* the paths of the files written to disk by the extraction
    url,            \* clone_github_repo: the url argument
    before,         \* the names under target_dir when clone_github_repo is called
    target,         \* the names under target_dir now
    clone_pc,       \* clone_github_repo: "idle", "start", "chosen", "cloned",
                    \* "failing" (in an except block), "raised" or "returned"
    clone_path,     \* clone_github_repo: local, None or the name under target_dir
    walk,           \* list_repo_tree: what os.walk(path) yields, in order
    max_entries,    \* list_repo_tree: the argument
    list_pc,        \* list_repo_tree: "idle", "dir", "files" or "done"
    list_r,         \* list_repo_tree: number of os.walk tuples taken
    list_f,         \* list_repo_tree: number of files of the tuple shown
    out,            \* list_repo_tree: local list of lines
    count           \* list_repo_tree: local counter

\* parse_repo_ast
flatVars == <<flat_pc, flat_i, results>>
\* secure_extract
zipVars == <<archive, zip_pc, zip_k, total_uncompressed, written>>
\* clone_github_repo
cloneVars == <<url, before, target, clone_pc, clone_path>>
\* list_repo_tree
listVars == <<walk, max_entries, list_pc, list_r, list_f, out, count>>
toolVars == <<cloneVars, listVars>>
\* what a step of parse_repo_ast_structured leaves alone besides its own state
besideWalk == <<budget_arg, flatVars, zipVars, toolVars>>

vars == <<tree, max_files, pc, i, files, scanned, skipped, errors,
          by_language, largest_files, result, calls, first, budget_arg,
          flatVars, zipVars, toolVars>>

(***************************************************************************)
(* Bounds of the model.                                                    *)
(***************************************************************************)
MaxEntries == 3
MaxBudget == 3
MaxLargestEntries == 6
MaxNodes == 2
MaxMatches == 2
MaxMembers == 3
MaxDirs == 3
MaxListFiles == 2
MaxListed == 4

(***************************************************************************)
(* Program constants.                                                      *)
(***************************************************************************)
MAX_FILE_BYTES == 1048576
TopN == 5
DefaultMaxFiles == 300
DisplayCap == 10
DEFAULT_MAX_FILES == 200
MAX_EXTRACT_BYTES == 209715200

SUPPORTED_CODE_EXTENSIONS ==
    {".py", ".js", ".jsx", ".ts", ".tsx", ".java", ".go", ".rs", ".cpp", ".c", ".cs"}

LANGUAGE_MAP ==
    [s \in SUPPORTED_CODE_EXTENSIONS |->
        CASE s = ".py" -> "python"
          [] s \in {".js", ".jsx"} -> "javascript"
          [] s \in {".ts", ".tsx"} -> "typescript"
          [] s = ".java" -> "java"
          [] s = ".go" -> "go"
          [] s = ".rs" -> "rust"
          [] s = ".cpp" -> "cpp"
          [] s = ".c" -> "c"
          [] s = ".cs" -> "csharp"]

\* str.lower() on the suffixes the model uses
Lower(s) ==
    CASE s = ".PY" -> ".py"
      [] s = ".JS" -> ".js"
      [] s = ".Java" -> ".java"
      [] OTHER -> s

\* Python's None and a present value, for dict.get() results
None == << >>
Some(v) == <<v>>
\* truthiness of an Optional[str]: None and "" are falsy
Truthy(opt) == opt # None /\ opt[1] # ""

(***************************************************************************)
(* Paths.  A path is its sequence of components.                           *)
(***************************************************************************)
RepoPath == <<"data", "uploads", "repo">>

\* the absolute path rglob yields for the k-th entry (0-based)
FilePath(k) == RepoPath \o <<ToString(k)>>

IsRelativeTo(p, root) ==
    /\ Len(root) <= Len(p)
    /\ SubSeq(p, 1, Len(root)) = root

\* PurePath.relative_to: defined only when IsRelativeTo (ValueError otherwise)
RelativeTo(p, root) == SubSeq(p, Len(root) + 1, Len(p))

(***************************************************************************)
(* Sequence helpers.                                                       *)
(***************************************************************************)
Range(s) == {s[k] : k \in DOMAIN s}

\* list(set(xs)): the distinct elements of xs in an order the hash seed picks
ListOfSet(xs) ==
    {p \in [1..Cardinality(Range(xs)) -> Range(xs)] : Range(p) = Range(xs)}

\* the sequences over S of length n or less
SeqsUpTo(S, n) == UNION {[1..k -> S] : k \in 0..n}

Take(s, n) == SubSeq(s, 1, IF Len(s) < n THEN Len(s) ELSE n)

(***************************************************************************)
(* Extractors.  Each reads entry e at path p and returns the set of dicts  *)
(* it can return (more than one only through the order of list(set())).   *)
(***************************************************************************)
TooLarge == "file too large (>1MB)"

\* the message of the exception raised inside the extractor's try, or None
\* open() fails first, then (past the size check) decode/parse/regex
ReadFailure(e) == IF e.readable THEN None ELSE Some("Permission denied")

\* [node.name for node in ast.walk(tree) if isinstance(node, cls)]
RECURSIVE NodeNames(_, _)
NodeNames(nodes, cls) ==
    IF nodes = << >> THEN << >>
    ELSE (IF Head(nodes).type = cls THEN <<Head(nodes).names[1]>> ELSE << >>)
            \o NodeNames(Tail(nodes), cls)

\* the distinct elements of xs, each at its first position
RECURSIVE Distinct(_)
Distinct(xs) ==
    IF xs = << >> THEN << >>
    ELSE LET front == Distinct(SubSeq(xs, 1, Len(xs) - 1))
         IN IF xs[Len(xs)] \in Range(front) THEN front ELSE Append(front, xs[Len(xs)])

\* declaration lists with the duplicates removed, as the other extractors do
Deduplicating_PythonDecls(p, e) ==
    [language |-> "python", file |-> p,
     functions |-> Distinct(NodeNames(e.nodes, "FunctionDef")),
     classes |-> Distinct(NodeNames(e.nodes, "ClassDef")),
     imports |-> Distinct(NodeNames(e.nodes, "Import"))]

\* the three comprehensions of parse_python_ast (for an Import node the
\* name is node.names[0].name, its first alias)
PythonDecls(p, e) ==
    [language |-> "python", file |-> p,
     functions |-> NodeNames(e.nodes, "FunctionDef"),
     classes |-> NodeNames(e.nodes, "ClassDef"),
     imports |-> NodeNames(e.nodes, "Import")]

\* parse_python_ast whose skipped result also carries declaration lists
DeclsWithSkipped_parse_python_ast(p, e) ==
    IF ReadFailure(e) # None
    THEN {[language |-> "python", file |-> p, error |-> ReadFailure(e)[1]]}
    ELSE IF e.size > MAX_FILE_BYTES
    THEN {[language |-> "python", file |-> p, skipped |-> TooLarge,
           functions |-> NodeNames(e.nodes, "FunctionDef"),
           classes |-> NodeNames(e.nodes, "ClassDef"),
           imports |-> NodeNames(e.nodes, "Import")]}
    ELSE IF e.failure # None
    THEN {[language |-> "python", file |-> p, error |-> e.failure[1]]}
    ELSE {PythonDecls(p, e)}

\* parse_python_ast that parses before it tests the size
ParseFirst_parse_python_ast(p, e) ==
    IF ReadFailure(e) # None
    THEN {[language |-> "python", file |-> p, error |-> ReadFailure(e)[1]]}
    ELSE IF e.failure # None
    THEN {[language |-> "python", file |-> p, error |-> e.failure[1]]}
    ELSE IF e.size > MAX_FILE_BYTES
    THEN {[language |-> "python", file |-> p, skipped |-> TooLarge]}
    ELSE {PythonDecls(p, e)}

parse_python_ast(p, e) ==
    IF ReadFailure(e) # None
    THEN {[language |-> "python", file |-> p, error |-> ReadFailure(e)[1]]}
    ELSE IF e.size > MAX_FILE_BYTES
    THEN {[language |-> "python", file |-> p, skipped |-> TooLarge]}
    ELSE IF e.failure # None
    THEN {[language |-> "python", file |-> p, error |-> e.failure[1]]}
    ELSE {PythonDecls(p, e)}

\* parse_javascript_ast without the list(set(...)) of the import sources
KeepingDuplicates_parse_javascript_ast(p, e) ==
    IF ReadFailure(e) # None
    THEN {[language |-> "javascript", file |-> p, error |-> ReadFailure(e)[1]]}
    ELSE IF e.size > MAX_FILE_BYTES
    THEN {[language |-> "javascript", file |-> p, skipped |-> TooLarge]}
    ELSE IF e.failure # None
    THEN {[language |-> "javascript", file |-> p, error |-> e.failure[1]]}
    ELSE {[language |-> "javascript", file |-> p, functions |-> f,
           classes |-> c, imports |-> e.imports] :
              f \in ListOfSet(e.functions), c \in ListOfSet(e.classes)}

parse_javascript_ast(p, e) ==
    IF ReadFailure(e) # None
    THEN {[language |-> "javascript", file |-> p, error |-> ReadFailure(e)[1]]}
    ELSE IF e.size > MAX_FILE_BYTES
    THEN {[language |-> "javascript", file |-> p, skipped |-> TooLarge]}
    ELSE IF e.failure # None
    THEN {[language |-> "javascript", file |-> p, error |-> e.failure[1]]}
    ELSE {[language |-> "javascript", file |-> p, functions |-> f,
           classes |-> c, imports |-> m] :
              f \in ListOfSet(e.functions), c \in ListOfSet(e.classes),
              m \in ListOfSet(e.imports)}

\* parse_typescript_ast without the relabelling of line 85
Unlabelled_parse_typescript_ast(p, e) == parse_javascript_ast(p, e)

\* parse_typescript_ast that relabels a result with declarations only
DeclarationsOnly_parse_typescript_ast(p, e) ==
    {IF "functions" \in DOMAIN r THEN [r EXCEPT !.language = "typescript"] ELSE r :
        r \in parse_javascript_ast(p, e)}

parse_typescript_ast(p, e) ==
    {[r EXCEPT !.language = "typescript"] : r \in parse_javascript_ast(p, e)}

parse_java_ast(p, e) ==
    IF ReadFailure(e) # None
    THEN {[language |-> "java", file |-> p, error |-> ReadFailure(e)[1]]}
    ELSE IF e.size > MAX_FILE_BYTES
    THEN {[language |-> "java", file |-> p, skipped |-> TooLarge]}
    ELSE IF e.failure # None
    THEN {[language |-> "java", file |-> p, error |-> e.failure[1]]}
    ELSE {[language |-> "java", file |-> p, functions |-> f,
           classes |-> c, imports |-> m] :
              f \in ListOfSet(e.functions), c \in ListOfSet(e.classes),
              m \in ListOfSet(e.imports)}

detect_language(suffix) ==
    IF Lower(suffix) \in DOMAIN LANGUAGE_MAP THEN LANGUAGE_MAP[Lower(suffix)] ELSE "unknown"

ExtractorLanguages == {"python", "javascript", "typescript", "java"}

\* the if/elif chain of the walk: the extractor selected for a language
Dispatch(lang, p, e) ==
    CASE lang = "python" -> parse_python_ast(p, e)
      [] lang = "javascript" -> parse_javascript_ast(p, e)
      [] lang = "typescript" -> parse_typescript_ast(p, e)
      [] lang = "java" -> parse_java_ast(p, e)
      [] OTHER -> {}

\* dict.get(key) / dict.get(key, default) on an extractor result
Get(d, key) == IF key \in DOMAIN d THEN Some(d[key]) ELSE None
GetOr(d, key, default) == IF key \in DOMAIN d THEN d[key] ELSE default

\* _summarize_file that stores the first 10 names of each kind only
Capped__summarize_file(parsed, root, file_size) ==
    [path |-> RelativeTo(parsed.file, root),
     language |-> GetOr(parsed, "language", "unknown"),
     functions |-> Take(GetOr(parsed, "functions", << >>), DisplayCap),
     classes |-> Take(GetOr(parsed, "classes", << >>), DisplayCap),
     imports |-> Take(GetOr(parsed, "imports", << >>), DisplayCap),
     error |-> Get(parsed, "error"),
     skipped |-> Get(parsed, "skipped"),
     bytes |-> file_size]

_summarize_file(parsed, root, file_size) ==
    [path |-> RelativeTo(parsed.file, root),
     language |-> GetOr(parsed, "language", "unknown"),
     functions |-> GetOr(parsed, "functions", << >>),
     classes |-> GetOr(parsed, "classes", << >>),
     imports |-> GetOr(parsed, "imports", << >>),
     error |-> Get(parsed, "error"),
     skipped |-> Get(parsed, "skipped"),
     bytes |-> file_size]

(***************************************************************************)
(* The walk: parse_repo_ast_structured.                                    *)
(***************************************************************************)
Entry == tree[i + 1]

\* line 218: file_path.is_file() and file_path.suffix.lower() in SUPPORTED_CODE_EXTENSIONS
Eligible(e) == e.is_file /\ Lower(e.suffix) \in SUPPORTED_CODE_EXTENSIONS

\* the budget test written i > max_files
OffByOne_InLoop == pc = "loop" /\ i < Len(tree) /\ ~(i > max_files)

\* a budget that counts the records made, not the entries enumerated
CountingRecords_InLoop == pc = "loop" /\ i < Len(tree) /\ ~(Len(files) >= max_files)

\* the for loop runs its body: the enumeration is not exhausted and no break
InLoop == pc = "loop" /\ i < Len(tree) /\ ~(i >= max_files)

\* lines 220-221 raise: stat() fails, or the path is not under repo_path
RaisesBeforeDispatch(e) == ~e.stat_ok \/ ~IsRelativeTo(FilePath(i), RepoPath)

\* by_language[k] = 1: the previous count is dropped
Overwriting_Incremented(m, k) ==
    [l \in DOMAIN m \cup {k} |-> IF l = k THEN 1 ELSE m[l]]

\* by_language[k] = by_language.get(k, 0) + 1
Incremented(m, k) ==
    [l \in DOMAIN m \cup {k} |-> IF l = k THEN GetOr(m, k, 0) + 1 ELSE m[l]]

\* an unstable descending sort: an equal size goes in front
RECURSIVE Unstable_InsertDesc(_, _)
Unstable_InsertDesc(sorted, x) ==
    IF sorted = << >> THEN <<x>>
    ELSE IF Head(sorted)[2] > x[2]
         THEN <<Head(sorted)>> \o Unstable_InsertDesc(Tail(sorted), x)
         ELSE <<x>> \o sorted

\* sorted(xs, key=lambda t: t[1], reverse=True): stable, descending by size
RECURSIVE InsertDesc(_, _)
InsertDesc(sorted, x) ==
    IF sorted = << >> THEN <<x>>
    ELSE IF Head(sorted)[2] >= x[2]
         THEN <<Head(sorted)>> \o InsertDesc(Tail(sorted), x)
         ELSE <<x>> \o sorted

RECURSIVE SortedDesc(_)
SortedDesc(xs) ==
    IF xs = << >> THEN << >>
    ELSE InsertDesc(SortedDesc(SubSeq(xs, 1, Len(xs) - 1)), xs[Len(xs)])

\* a result that counts the budget cutoff as an error
CutoffAsError_BuildResult ==
    [repo_path |-> RepoPath,
     files |-> files,
     stats |-> [total_considered |-> Len(files),
                scanned |-> scanned,
                skipped |-> skipped,
                errors |-> IF i < Len(tree) THEN errors + 1 ELSE errors,
                by_language |-> by_language,
                largest_files |-> Take(SortedDesc(largest_files), TopN)]]

\* lines 259-272
BuildResult ==
    [repo_path |-> RepoPath,
     files |-> files,
     stats |-> [total_considered |-> Len(files),
                scanned |-> scanned,
                skipped |-> skipped,
                errors |-> errors,
                by_language |-> by_language,
                largest_files |-> Take(SortedDesc(largest_files), TopN)]]

\* an entry that is no regular file or has no supported extension
SkipEntry ==
    /\ InLoop
    /\ ~Eligible(Entry)
    /\ i' = i + 1
    /\ UNCHANGED <<tree, max_files, pc, files, scanned, skipped, errors,
                   by_language, largest_files, result, calls, first>>
    /\ UNCHANGED besideWalk

\* an exception inside the try: except Exception -> errors += 1; continue
ProcessRaises ==
    /\ InLoop
    /\ Eligible(Entry)
    /\ RaisesBeforeDispatch(Entry)
    /\ errors' = errors + 1
    /\ i' = i + 1
    /\ UNCHANGED <<tree, max_files, pc, files, scanned, skipped,
                   by_language, largest_files, result, calls, first>>
    /\ UNCHANGED besideWalk

\* a supported extension whose language has no extractor: else: continue
NoExtractor ==
    /\ InLoop
    /\ Eligible(Entry)
    /\ ~RaisesBeforeDispatch(Entry)
    /\ detect_language(Entry.suffix) \notin ExtractorLanguages
    /\ largest_files' = Append(largest_files, <<RelativeTo(FilePath(i), RepoPath), Entry.size>>)
    /\ i' = i + 1
    /\ UNCHANGED <<tree, max_files, pc, files, scanned, skipped, errors,
                   by_language, result, calls, first>>
    /\ UNCHANGED besideWalk

\* the counters' if/elif/else on the summary (lines 243-250)
CountersAfter(summary) ==
    IF Truthy(summary.skipped) THEN <<scanned, skipped + 1, errors>>
    ELSE IF Truthy(summary.error) THEN <<scanned, skipped, errors + 1>>
    ELSE <<scanned + 1, skipped, errors>>

\* a loop body that leaves the loop after a record with an error
BreakingOnError_ProcessFile ==
    /\ InLoop
    /\ Eligible(Entry)
    /\ ~RaisesBeforeDispatch(Entry)
    /\ detect_language(Entry.suffix) \in ExtractorLanguages
    /\ \E parsed \in Dispatch(detect_language(Entry.suffix), FilePath(i), Entry) :
          LET summary == _summarize_file(parsed, RepoPath, Entry.size)
              counters == CountersAfter(summary)
          IN /\ files' = Append(files, summary)
             /\ scanned' = counters[1]
             /\ skipped' = counters[2]
             /\ errors' = counters[3]
             /\ by_language' = Incremented(by_language, summary.language)
             /\ i' = IF summary.error # None THEN Len(tree) ELSE i + 1
    /\ largest_files' = Append(largest_files, <<RelativeTo(FilePath(i), RepoPath), Entry.size>>)
    /\ UNCHANGED <<tree, max_files, pc, result, calls, first>>
    /\ UNCHANGED besideWalk

\* a loop body that puts the new record in front of files
Prepending_ProcessFile ==
    /\ InLoop
    /\ Eligible(Entry)
    /\ ~RaisesBeforeDispatch(Entry)
    /\ detect_language(Entry.suffix) \in ExtractorLanguages
    /\ \E parsed \in Dispatch(detect_language(Entry.suffix), FilePath(i), Entry) :
          LET summary == _summarize_file(parsed, RepoPath, Entry.size)
              counters == CountersAfter(summary)
          IN /\ files' = <<summary>> \o files
             /\ scanned' = counters[1]
             /\ skipped' = counters[2]
             /\ errors' = counters[3]
             /\ by_language' = Incremented(by_language, summary.language)
    /\ largest_files' = Append(largest_files, <<RelativeTo(FilePath(i), RepoPath), Entry.size>>)
    /\ i' = i + 1
    /\ UNCHANGED <<tree, max_files, pc, result, calls, first>>
    /\ UNCHANGED besideWalk

\* a loop body where a record with an error takes the place of the record
\* before it
Replacing_ProcessFile ==
    /\ InLoop
    /\ Eligible(Entry)
    /\ ~RaisesBeforeDispatch(Entry)
    /\ detect_language(Entry.suffix) \in ExtractorLanguages
    /\ \E parsed \in Dispatch(detect_language(Entry.suffix), FilePath(i), Entry) :
          LET summary == _summarize_file(parsed, RepoPath, Entry.size)
              counters == CountersAfter(summary)
          IN /\ files' = IF summary.error # None /\ files # << >>
                         THEN [files EXCEPT ![Len(files)] = summary]
                         ELSE Append(files, summary)
             /\ scanned' = counters[1]
             /\ skipped' = counters[2]
             /\ errors' = counters[3]
             /\ by_language' = Incremented(by_language, summary.language)
    /\ largest_files' = Append(largest_files, <<RelativeTo(FilePath(i), RepoPath), Entry.size>>)
    /\ i' = i + 1
    /\ UNCHANGED <<tree, max_files, pc, result, calls, first>>
    /\ UNCHANGED besideWalk

\* a file with an extractor: parse, summarize, count
ProcessFile ==
    /\ InLoop
    /\ Eligible(Entry)
    /\ ~RaisesBeforeDispatch(Entry)
    /\ detect_language(Entry.suffix) \in ExtractorLanguages
    /\ \E parsed \in Dispatch(detect_language(Entry.suffix), FilePath(i), Entry) :
          LET summary == _summarize_file(parsed, RepoPath, Entry.size)
              counters == CountersAfter(summary)
          IN /\ files' = Append(files, summary)
             /\ scanned' = counters[1]
             /\ skipped' = counters[2]
             /\ errors' = counters[3]
             /\ by_language' = Incremented(by_language, summary.language)
    /\ largest_files' = Append(largest_files, <<RelativeTo(FilePath(i), RepoPath), Entry.size>>)
    /\ i' = i + 1
    /\ UNCHANGED <<tree, max_files, pc, result, calls, first>>
    /\ UNCHANGED besideWalk

\* the loop ends (break on the budget, or the enumeration is exhausted):
\* sort the candidates, build and return the result
Return ==
    /\ pc = "loop"
    /\ ~InLoop
    /\ largest_files' = Take(SortedDesc(largest_files), TopN)
    /\ result' = BuildResult
    /\ pc' = "done"
    /\ UNCHANGED <<tree, max_files, i, files, scanned, skipped, errors,
                   by_language, calls, first>>
    /\ UNCHANGED besideWalk

\* a second call whose by_language dict survives from the first call
\* (a dict shared between calls)
Shared_CallAgain ==
    /\ pc = "done"
    /\ calls = 1
    /\ first' = result
    /\ calls' = 2
    /\ pc' = "loop"
    /\ i' = 0
    /\ files' = << >>
    /\ scanned' = 0
    /\ skipped' = 0
    /\ errors' = 0
    /\ largest_files' = << >>
    /\ result' = << >>
    /\ UNCHANGED <<tree, max_files, by_language>>
    /\ UNCHANGED besideWalk

\* the caller calls the walk again on the same tree with the same budget
\* (lines 205-211 initialise the locals of the new call)
CallAgain ==
    /\ pc = "done"
    /\ calls = 1
    /\ first' = result
    /\ calls' = 2
    /\ pc' = "loop"
    /\ i' = 0
    /\ files' = << >>
    /\ scanned' = 0
    /\ skipped' = 0
    /\ errors' = 0
    /\ by_language' = << >>
    /\ largest_files' = << >>
    /\ result' = << >>
    /\ UNCHANGED <<tree, max_files>>
    /\ UNCHANGED besideWalk

(***************************************************************************)
(* The flat walk: parse_repo_ast.  A display string is its header (path    *)
(* and language) and its indented lines, each a label and the items the    *)
(* line joins with ", " (or the one diagnostic text).                      *)
(***************************************************************************)
FlatEntry == tree[flat_i + 1]

FlatInLoop == flat_pc = "loop" /\ flat_i < Len(tree) /\ ~(flat_i >= max_files)

Line(label, items) == <<label, items>>

\* lines 183-191: a declaration line for each kind with a non-empty join
DeclarationLines(parsed) ==
    LET funcs == Take(GetOr(parsed, "functions", << >>), DisplayCap)
        classes == Take(GetOr(parsed, "classes", << >>), DisplayCap)
        imports == Take(GetOr(parsed, "imports", << >>), DisplayCap)
    IN (IF funcs # << >> THEN <<Line("Functions", funcs)>> ELSE << >>)
       \o (IF classes # << >> THEN <<Line("Classes", classes)>> ELSE << >>)
       \o (IF imports # << >> THEN <<Line("Imports", imports)>> ELSE << >>)

\* a display string that still gets declaration lines after a diagnostic
DiagnosticAndDeclarations_file_summary(parsed, root) ==
    [path |-> RelativeTo(parsed.file, root),
     language |-> GetOr(parsed, "language", "unknown"),
     lines |-> (IF "skipped" \in DOMAIN parsed
                THEN <<Line("Skipped", <<parsed.skipped>>)>>
                ELSE << >>)
               \o (IF "error" \in DOMAIN parsed
                   THEN <<Line("Error", <<parsed.error>>)>>
                   ELSE << >>)
               \o <<Line("Functions", GetOr(parsed, "functions", << >>))>>]

\* lines 168-192: the display string of an extractor result
file_summary(parsed, root) ==
    [path |-> RelativeTo(parsed.file, root),
     language |-> GetOr(parsed, "language", "unknown"),
     lines |-> IF "skipped" \in DOMAIN parsed
               THEN <<Line("Skipped", <<parsed.skipped>>)>>
               ELSE IF "error" \in DOMAIN parsed
               THEN <<Line("Error", <<parsed.error>>)>>
               ELSE DeclarationLines(parsed)]

\* the caller calls parse_repo_ast on the tree the structured walk was run
\* on, with the same budget (lines 140-142)
CallFlat ==
    /\ pc = "done"
    /\ flat_pc = "idle"
    /\ flat_pc' = "loop"
    /\ flat_i' = 0
    /\ results' = << >>
    /\ UNCHANGED <<tree, max_files, pc, i, files, scanned, skipped, errors,
                   by_language, largest_files, result, calls, first, budget_arg, zipVars, toolVars>>

\* an entry that is no regular file or has no supported extension
FlatSkipEntry ==
    /\ FlatInLoop
    /\ ~Eligible(FlatEntry)
    /\ flat_i' = flat_i + 1
    /\ UNCHANGED <<tree, max_files, pc, i, files, scanned, skipped, errors,
                   by_language, largest_files, result, calls, first, budget_arg,
                   flat_pc, results, zipVars, toolVars>>

\* a supported extension whose language has no extractor: else: continue
FlatNoExtractor ==
    /\ FlatInLoop
    /\ Eligible(FlatEntry)
    /\ detect_language(FlatEntry.suffix) \notin ExtractorLanguages
    /\ flat_i' = flat_i + 1
    /\ UNCHANGED <<tree, max_files, pc, i, files, scanned, skipped, errors,
                   by_language, largest_files, result, calls, first, budget_arg,
                   flat_pc, results, zipVars, toolVars>>

\* a file with an extractor: parse, render, append (the except of line 195
\* drops the string when the path is not under repo_path)
FlatProcessFile ==
    /\ FlatInLoop
    /\ Eligible(FlatEntry)
    /\ detect_language(FlatEntry.suffix) \in ExtractorLanguages
    /\ \E parsed \in Dispatch(detect_language(FlatEntry.suffix), FilePath(flat_i), FlatEntry) :
          results' = IF IsRelativeTo(parsed.file, RepoPath)
                     THEN Append(results, file_summary(parsed, RepoPath))
                     ELSE results
    /\ flat_i' = flat_i + 1
    /\ UNCHANGED <<tree, max_files, pc, i, files, scanned, skipped, errors,
                   by_language, largest_files, result, calls, first, budget_arg,
                   flat_pc, zipVars, toolVars>>

\* the loop ends (break on the budget, or the enumeration is exhausted):
\* return results
FlatReturn ==
    /\ flat_pc = "loop"
    /\ ~FlatInLoop
    /\ flat_pc' = "done"
    /\ UNCHANGED <<tree, max_files, pc, i, files, scanned, skipped, errors,
                   by_language, largest_files, result, calls, first, budget_arg,
                   flat_i, results, zipVars, toolVars>>

\* one structured walk, then one flat walk of the same tree
NextFlat ==
    \/ SkipEntry
    \/ ProcessRaises
    \/ NoExtractor
    \/ ProcessFile
    \/ Return
    \/ CallFlat
    \/ FlatSkipEntry
    \/ FlatNoExtractor
    \/ FlatProcessFile
    \/ FlatReturn

(***************************************************************************)
(* secure_extract (components/uploader.py).  Here a path is an absolute    *)
(* sequence of components and a component is its sequence of characters,  *)
(* so that str(path) and str.startswith are what they are in the code.     *)
(***************************************************************************)
ParDir == <<".", ".">>
CurDir == <<".">>

\* the directory the archive is extracted to: /u/r
ExtractTo == << <<"u">>, <<"r">> >>

\* a ZipInfo: filename split at "/" (absolute when it starts with "/")
Member(absolute, parts, file_size) ==
    [absolute |-> absolute, parts |-> parts, file_size |-> file_size]

\* extract_to.joinpath(member.filename): an absolute filename replaces the base
JoinPath(base, m) == IF m.absolute THEN m.parts ELSE base \o m.parts

\* Path.resolve() where nothing is a symlink: "." is dropped, ".." drops
\* the component before it (the root is its own parent)
RECURSIVE Resolve(_)
Resolve(path) ==
    IF path = << >> THEN << >>
    ELSE LET front == Resolve(SubSeq(path, 1, Len(path) - 1))
             last == path[Len(path)]
         IN IF last = CurDir THEN front
            ELSE IF last = ParDir
                 THEN (IF front = << >> THEN << >> ELSE SubSeq(front, 1, Len(front) - 1))
                 ELSE Append(front, last)

\* str(path): the characters of "/" + "/".join(components)
RECURSIVE Str(_)
Str(path) ==
    IF path = << >> THEN << >>
    ELSE Str(SubSeq(path, 1, Len(path) - 1)) \o <<"/">> \o path[Len(path)]

\* str.startswith
StartsWith(text, prefix) ==
    /\ Len(prefix) <= Len(text)
    /\ SubSeq(text, 1, Len(prefix)) = prefix

\* the test of line 52 passes
PassesPathCheck(m) ==
    StartsWith(Str(Resolve(JoinPath(ExtractTo, m))), Str(Resolve(ExtractTo)))

\* ZipFile.extractall writes a member below the target directory, with the
\* empty, "." and ".." components of its name removed
RECURSIVE Kept(_)
Kept(parts) ==
    IF parts = << >> THEN << >>
    ELSE (IF Head(parts) \in {CurDir, ParDir} THEN << >> ELSE <<Head(parts)>>)
            \o Kept(Tail(parts))

TargetPath(base, m) == base \o Kept(m.parts)

\* a loop that extracts each member as soon as it has passed its tests
ExtractingAsChecked_ZipCheckMember ==
    /\ zip_pc = "check"
    /\ zip_k < Len(archive)
    /\ PassesPathCheck(archive[zip_k + 1])
    /\ total_uncompressed + archive[zip_k + 1].file_size <= MAX_EXTRACT_BYTES
    /\ total_uncompressed' = total_uncompressed + archive[zip_k + 1].file_size
    /\ zip_k' = zip_k + 1
    /\ written' = written \cup {TargetPath(ExtractTo, archive[zip_k + 1])}
    /\ UNCHANGED <<archive, zip_pc>>
    /\ UNCHANGED <<tree, max_files, pc, i, files, scanned, skipped, errors,
                   by_language, largest_files, result, calls, first, budget_arg, flatVars, toolVars>>

\* a member is checked and passes both tests (lines 46-69)
ZipCheckMember ==
    /\ zip_pc = "check"
    /\ zip_k < Len(archive)
    /\ PassesPathCheck(archive[zip_k + 1])
    /\ total_uncompressed + archive[zip_k + 1].file_size <= MAX_EXTRACT_BYTES
    /\ total_uncompressed' = total_uncompressed + archive[zip_k + 1].file_size
    /\ zip_k' = zip_k + 1
    /\ UNCHANGED <<archive, zip_pc, written>>
    /\ UNCHANGED <<tree, max_files, pc, i, files, scanned, skipped, errors,
                   by_language, largest_files, result, calls, first, budget_arg, flatVars, toolVars>>

\* the path test fails: ValueError (lines 52-59)
ZipRaiseUnsafe ==
    /\ zip_pc = "check"
    /\ zip_k < Len(archive)
    /\ ~PassesPathCheck(archive[zip_k + 1])
    /\ zip_pc' = "raised"
    /\ UNCHANGED <<archive, zip_k, total_uncompressed, written>>
    /\ UNCHANGED <<tree, max_files, pc, i, files, scanned, skipped, errors,
                   by_language, largest_files, result, calls, first, budget_arg, flatVars, toolVars>>

\* the running size exceeds MAX_EXTRACT_BYTES: ValueError (lines 62-69)
ZipRaiseTooLarge ==
    /\ zip_pc = "check"
    /\ zip_k < Len(archive)
    /\ PassesPathCheck(archive[zip_k + 1])
    /\ total_uncompressed + archive[zip_k + 1].file_size > MAX_EXTRACT_BYTES
    /\ total_uncompressed' = total_uncompressed + archive[zip_k + 1].file_size
    /\ zip_pc' = "raised"
    /\ UNCHANGED <<archive, zip_k, written>>
    /\ UNCHANGED <<tree, max_files, pc, i, files, scanned, skipped, errors,
                   by_language, largest_files, result, calls, first, budget_arg, flatVars, toolVars>>

\* every member passed: zf.extractall(path=extract_to) (line 72)
ZipExtractAll ==
    /\ zip_pc = "check"
    /\ zip_k = Len(archive)
    /\ written' = {TargetPath(ExtractTo, archive[k]) : k \in DOMAIN archive}
    /\ zip_pc' = "extracted"
    /\ UNCHANGED <<archive, zip_k, total_uncompressed>>
    /\ UNCHANGED <<tree, max_files, pc, i, files, scanned, skipped, errors,
                   by_language, largest_files, result, calls, first, budget_arg, flatVars, toolVars>>

NextZip ==
    \/ ZipCheckMember
    \/ ZipRaiseUnsafe
    \/ ZipRaiseTooLarge
    \/ ZipExtractAll

(***************************************************************************)
(* clone_github_repo (utils/github_utils.py).  target_dir is the set of    *)
(* the names it holds.  A url is the form it is written in, the name of    *)
(* its last path segment and whether ".git" follows the name.              *)
(***************************************************************************)
Url(form, name, dot_git) == [form |-> form, name |-> name, dot_git |-> dot_git]

\* lines 29-41: https://github.com/<owner>/<name>[/], ...<name>.git, or
\* git@github.com:<owner>/<name>.git
validate_github_url(u) == u.form = "https" \/ (u.form = "ssh" /\ u.dot_git)

\* lines 54-66: the last path segment without ".git"
extract_repo_name(u) == u.name

\* lines 144-150: the first of name, name_1, name_2, ... that does not exist
RECURSIVE UniqueName(_, _, _)
UniqueName(original_name, counter, names) ==
    LET repo_name == IF counter = 0 THEN original_name
                     ELSE original_name \o "_" \o ToString(counter)
    IN IF repo_name \in names THEN UniqueName(original_name, counter + 1, names)
       ELSE repo_name

\* shutil.rmtree(path, ignore_errors=True): the directory is removed, or a
\* removal fails, the error is ignored and the directory stays
Rmtree(names, name, removed) == IF removed THEN names \ {name} ELSE names

\* the URL is invalid or git is not installed: ValueError (lines 128-135)
CloneRaiseEarly ==
    /\ clone_pc = "start"
    /\ \E git_installed \in BOOLEAN :
          ~validate_github_url(url) \/ ~git_installed
    /\ clone_pc' = "failing"
    /\ UNCHANGED <<url, before, target, clone_path>>
    /\ UNCHANGED <<tree, max_files, pc, i, files, scanned, skipped, errors,
                   by_language, largest_files, result, calls, first, budget_arg,
                   flatVars, zipVars, listVars>>

\* lines 141-150: the clone path is chosen
CloneChoosePath ==
    /\ clone_pc = "start"
    /\ \E git_installed \in BOOLEAN :
          validate_github_url(url) /\ git_installed
    /\ clone_path' = Some(UniqueName(extract_repo_name(url), 0, target))
    /\ clone_pc' = "chosen"
    /\ UNCHANGED <<url, before, target>>
    /\ UNCHANGED <<tree, max_files, pc, i, files, scanned, skipped, errors,
                   by_language, largest_files, result, calls, first, budget_arg,
                   flatVars, zipVars, listVars>>

\* lines 172-182: git clone runs; it succeeds, or it fails or is killed at
\* the timeout, with or without a directory left at clone_path
CloneRun ==
    /\ clone_pc = "chosen"
    /\ \E outcome \in {"ok", "failed", "timeout"}, left \in BOOLEAN :
          IF outcome = "ok"
          THEN /\ target' = target \cup {clone_path[1]}
               /\ clone_pc' = "cloned"
          ELSE /\ target' = IF left THEN target \cup {clone_path[1]} ELSE target
               /\ clone_pc' = "failing"
    /\ UNCHANGED <<url, before, clone_path>>
    /\ UNCHANGED <<tree, max_files, pc, i, files, scanned, skipped, errors,
                   by_language, largest_files, result, calls, first, budget_arg,
                   flatVars, zipVars, listVars>>

\* lines 187-204: the size test; too large: rmtree and ValueError
CloneCheckSize ==
    /\ clone_pc = "cloned"
    /\ \E repo_size \in {10, MAX_EXTRACT_BYTES + 1}, removed \in BOOLEAN :
          IF repo_size > MAX_EXTRACT_BYTES
          THEN /\ target' = Rmtree(target, clone_path[1], removed)
               /\ clone_pc' = "failing"
          ELSE /\ target' = target
               /\ clone_pc' = "returned"
    /\ UNCHANGED <<url, before, clone_path>>
    /\ UNCHANGED <<tree, max_files, pc, i, files, scanned, skipped, errors,
                   by_language, largest_files, result, calls, first, budget_arg,
                   flatVars, zipVars, listVars>>

\* the except blocks (lines 206-218): clean up and raise
CloneCleanup ==
    /\ clone_pc = "failing"
    /\ \E removed \in BOOLEAN :
          target' = IF clone_path # None /\ clone_path[1] \in target
                    THEN Rmtree(target, clone_path[1], removed)
                    ELSE target
    /\ clone_pc' = "raised"
    /\ UNCHANGED <<url, before, clone_path>>
    /\ UNCHANGED <<tree, max_files, pc, i, files, scanned, skipped, errors,
                   by_language, largest_files, result, calls, first, budget_arg,
                   flatVars, zipVars, listVars>>

NextClone ==
    \/ CloneRaiseEarly
    \/ CloneChoosePath
    \/ CloneRun
    \/ CloneCheckSize
    \/ CloneCleanup

(***************************************************************************)
(* list_repo_tree (utils/file_utils.py).  os.walk(path) yields one tuple   *)
(* per directory, top down: here the parts of the directory's path         *)
(* relative to path and the names of its files.  A line is its indent      *)
(* level (the number of "  " in front) and its text.                       *)
(***************************************************************************)
WalkTuple(parts, fs) == [parts |-> parts, files |-> fs]

TreeLine(indent, text) == [indent |-> indent, text |-> text]

Truncated == TreeLine(0, "... (truncated)")
EmptyRepository == TreeLine(0, "(empty or invalid repository)")

\* lines 20-22 and 26-28 with the test written count > max_entries
Late_AfterEntry(line) ==
    /\ out' = IF count + 1 > max_entries THEN out \o <<line, Truncated>> ELSE Append(out, line)
    /\ count' = count + 1
    /\ list_pc' = IF count + 1 > max_entries THEN "done" ELSE "files"

\* out.append(line); count += 1; if count >= max_entries: append the
\* marker and return
AfterEntry(line) ==
    /\ out' = IF count + 1 >= max_entries THEN out \o <<line, Truncated>> ELSE Append(out, line)
    /\ count' = count + 1
    /\ list_pc' = IF count + 1 >= max_entries THEN "done" ELSE "files"

\* the next tuple of os.walk: the directory line, unless it is path itself
\* (lines 13-22)
ListShowDirectory ==
    /\ list_pc = "dir"
    /\ list_r < Len(walk)
    /\ LET rel_root == walk[list_r + 1].parts
       IN IF rel_root # << >>
          THEN AfterEntry(TreeLine(Len(rel_root) - 1,
                                   "- " \o rel_root[Len(rel_root)] \o "/"))
          ELSE /\ list_pc' = "files"
               /\ UNCHANGED <<out, count>>
    /\ list_r' = list_r + 1
    /\ list_f' = 0
    /\ UNCHANGED <<walk, max_entries>>
    /\ UNCHANGED <<tree, max_files, pc, i, files, scanned, skipped, errors,
                   by_language, largest_files, result, calls, first, budget_arg,
                   flatVars, zipVars, cloneVars>>

\* the next file of the tuple (lines 23-28)
ListShowFile ==
    /\ list_pc = "files"
    /\ list_f < Len(walk[list_r].files)
    /\ AfterEntry(TreeLine(Len(walk[list_r].parts), walk[list_r].files[list_f + 1]))
    /\ list_f' = list_f + 1
    /\ UNCHANGED <<walk, max_entries, list_r>>
    /\ UNCHANGED <<tree, max_files, pc, i, files, scanned, skipped, errors,
                   by_language, largest_files, result, calls, first, budget_arg,
                   flatVars, zipVars, cloneVars>>

\* the files of the tuple are exhausted: back to the for of line 13
ListNextTuple ==
    /\ list_pc = "files"
    /\ list_f = Len(walk[list_r].files)
    /\ list_pc' = "dir"
    /\ UNCHANGED <<walk, max_entries, list_r, list_f, out, count>>
    /\ UNCHANGED <<tree, max_files, pc, i, files, scanned, skipped, errors,
                   by_language, largest_files, result, calls, first, budget_arg,
                   flatVars, zipVars, cloneVars>>

\* os.walk is exhausted (lines 29-31)
ListReturn ==
    /\ list_pc = "dir"
    /\ list_r = Len(walk)
    /\ out' = IF out = << >> THEN <<EmptyRepository>> ELSE out
    /\ list_pc' = "done"
    /\ UNCHANGED <<walk, max_entries, list_r, list_f, count>>
    /\ UNCHANGED <<tree, max_files, pc, i, files, scanned, skipped, errors,
                   by_language, largest_files, result, calls, first, budget_arg,
                   flatVars, zipVars, cloneVars>>

NextList ==
    \/ ListShowDirectory
    \/ ListShowFile
    \/ ListNextTuple
    \/ ListReturn

Next ==
    \/ SkipEntry
    \/ ProcessRaises
    \/ NoExtractor
    \/ ProcessFile
    \/ Return
    \/ CallAgain

(***************************************************************************)
(* Trees.                                                                  *)
(***************************************************************************)
\* a regular file: nodes are the nodes of its Python syntax tree in ast.walk
\* order; functions, classes, imports are the matches re.findall returns for
\* the patterns of each category, one pattern after the other
File(suffix, size) ==
    [is_file |-> TRUE, suffix |-> suffix, size |-> size, stat_ok |-> TRUE,
     readable |-> TRUE, failure |-> None, nodes |-> << >>,
     functions |-> << >>, classes |-> << >>, imports |-> << >>]

Node(type, names) == [type |-> type, names |-> names]

Directory == [File("", 0) EXCEPT !.is_file = FALSE]

\* a.py: import os / def foo / class Bar with a method foo
PyDecls ==
    [File(".py", 10) EXCEPT !.nodes =
        <<Node("Import", <<"os">>), Node("FunctionDef", <<"foo">>),
          Node("ClassDef", <<"Bar">>), Node("FunctionDef", <<"foo">>)>>]
\* function foo(){} twice, class A, require("fs") and import from "fs"
JsDecls ==
    [File(".js", 20) EXCEPT !.functions = <<"foo", "bar", "foo">>, !.classes = <<"A">>,
                            !.imports = <<"fs", "fs">>]

EntryKinds ==
    { Directory,
      File(".md", 10),
      File(".go", 30),
      PyDecls,
      JsDecls,
      [File(".py", 10) EXCEPT !.failure = Some("invalid syntax")],
      [File(".PY", 2097152) EXCEPT !.failure = Some("invalid syntax")],
      File(".ts", 1048576),
      [JsDecls EXCEPT !.suffix = ".JS", !.size = 2097152],
      [File(".java", 20) EXCEPT !.failure = Some("")],
      [File(".java", 1048577) EXCEPT !.readable = FALSE],
      [File(".py", 10) EXCEPT !.stat_ok = FALSE] }

Trees(kinds, n) == UNION {[1..k -> kinds] : k \in 0..n}

\* def f(repo_path, max_files: int = 300): the budget the walk runs with
ResolveBudget(arg) == IF arg = None THEN DefaultMaxFiles ELSE arg[1]

\* clone_github_repo does not run
CloneIdle ==
    /\ url = << >>
    /\ before = {}
    /\ target = {}
    /\ clone_pc = "idle"
    /\ clone_path = None

\* list_repo_tree does not run
ListIdle ==
    /\ walk = << >>
    /\ max_entries = 0
    /\ list_pc = "idle"
    /\ list_r = 0
    /\ list_f = 0
    /\ out = << >>
    /\ count = 0

\* nothing but the structured walk runs
OthersIdle ==
    /\ CloneIdle
    /\ ListIdle
    /\ flat_pc = "idle"
    /\ flat_i = 0
    /\ results = << >>
    /\ archive = << >>
    /\ zip_pc = "idle"
    /\ zip_k = 0
    /\ total_uncompressed = 0
    /\ written = {}

InitLocals ==
    /\ pc = "loop"
    /\ i = 0
    /\ files = << >>
    /\ scanned = 0
    /\ skipped = 0
    /\ errors = 0
    /\ by_language = << >>
    /\ largest_files = << >>
    /\ result = << >>
    /\ calls = 1
    /\ first = << >>

Init ==
    /\ tree \in Trees(EntryKinds, MaxEntries)
    /\ budget_arg \in {Some(b) : b \in 0..MaxBudget}
    /\ max_files = ResolveBudget(budget_arg)
    /\ InitLocals
    /\ OthersIdle

Spec == Init /\ [][Next]_vars

\* trees long enough for the top-5 cut: files of equal and of different
\* sizes, one of them without extractor, after at most one entry that is
\* no candidate
LargestKinds == {File(".py", 10), File(".go", 20), File(".java", 20)}
LargestHeads == {Directory, [File(".py", 10) EXCEPT !.stat_ok = FALSE]}

InitLargest ==
    /\ \E head \in Trees(LargestHeads, 1), body \in Trees(LargestKinds, MaxLargestEntries) :
          tree = head \o body
    /\ budget_arg \in {Some(TopN), None}
    /\ max_files = ResolveBudget(budget_arg)
    /\ InitLocals
    /\ OthersIdle

SpecLargest == InitLargest /\ [][Next]_vars

SpecFlat == Init /\ [][NextFlat]_vars

\* the members of the archives: names inside the target, names that leave
\* it through "..", absolute names, and a sibling directory whose name
\* starts with the target's name
Members ==
    { Member(FALSE, << <<"a">>, <<"x">> >>, 0),
      Member(FALSE, << <<"a">>, <<"x">> >>, 120000000),
      Member(FALSE, << <<"b">>, <<"y">> >>, 120000000),
      Member(FALSE, << <<"a">>, ParDir, <<"x">> >>, 10),
      Member(FALSE, << ParDir, <<"x">> >>, 10),
      Member(FALSE, << ParDir, ParDir, <<"e">>, <<"x">> >>, 10),
      Member(FALSE, << ParDir, <<"r">>, <<"x">> >>, 10),
      Member(FALSE, << ParDir, <<"r", "x">>, <<"x">> >>, 10),
      Member(TRUE, << <<"e">>, <<"x">> >>, 10),
      Member(TRUE, << <<"u">>, <<"r">>, <<"x">> >>, 10) }

\* no walk runs
WalkIdle ==
    /\ tree = << >>
    /\ budget_arg = None
    /\ max_files = ResolveBudget(budget_arg)
    /\ pc = "idle"
    /\ i = 0
    /\ files = << >>
    /\ scanned = 0
    /\ skipped = 0
    /\ errors = 0
    /\ by_language = << >>
    /\ largest_files = << >>
    /\ result = << >>
    /\ calls = 0
    /\ first = << >>
    /\ flat_pc = "idle"
    /\ flat_i = 0
    /\ results = << >>

\* secure_extract is entered with an archive (lines 39-45)
InitZip ==
    /\ archive \in SeqsUpTo(Members, MaxMembers)
    /\ zip_pc = "check"
    /\ zip_k = 0
    /\ total_uncompressed = 0
    /\ written = {}
    /\ WalkIdle
    /\ CloneIdle
    /\ ListIdle

SpecZip == InitZip /\ [][NextZip]_vars

\* secure_extract does not run
ZipIdle ==
    /\ archive = << >>
    /\ zip_pc = "idle"
    /\ zip_k = 0
    /\ total_uncompressed = 0
    /\ written = {}

Urls ==
    {Url("https", "repo", FALSE), Url("https", "repo", TRUE), Url("ssh", "repo_1", TRUE),
     Url("ssh", "repo", FALSE), Url("other", "repo", FALSE)}

\* clone_github_repo is called on a target_dir that holds none, some or
\* all of these names
InitClone ==
    /\ url \in Urls
    /\ before \in SUBSET {"repo", "repo_1", "repo_2", "repo_1_1", "docs"}
    /\ target = before
    /\ clone_pc = "start"
    /\ clone_path = None
    /\ WalkIdle
    /\ ZipIdle
    /\ ListIdle

SpecClone == InitClone /\ [][NextClone]_vars

\* the walk is sequential code that runs to its return: a step that can be
\* taken is taken
SpecFair == Init /\ [][Next]_vars /\ WF_vars(Next)

\* one file with every text the extractors tell apart, within the bounds

NodeKinds ==
    { Node("FunctionDef", <<"foo">>), Node("FunctionDef", <<"bar">>),
      Node("AsyncFunctionDef", <<"foo">>), Node("ClassDef", <<"foo">>),
      Node("Import", <<"os", "sys">>), Node("ImportFrom", <<"os">>) }

PythonFiles ==
    {[File(".py", 10) EXCEPT !.nodes = n] : n \in SeqsUpTo(NodeKinds, MaxNodes)}

RegexFiles ==
    {[File(x, 10) EXCEPT !.functions = f, !.classes = c, !.imports = m] :
        x \in {".js", ".tsx", ".java"},
        f \in SeqsUpTo({"foo", "bar"}, MaxMatches),
        c \in SeqsUpTo({"A"}, MaxMatches),
        m \in SeqsUpTo({"fs"}, MaxMatches)}

FailingFiles ==
    UNION {{[File(x, 2097152) EXCEPT !.functions = <<"foo">>],
            [File(x, 10) EXCEPT !.failure = Some("invalid syntax")],
            [File(x, 10) EXCEPT !.readable = FALSE]} :
              x \in {".py", ".js", ".tsx", ".java"}}

ExtractKinds == PythonFiles \cup RegexFiles \cup FailingFiles

\* the entries that make no record, after the file
ExtractTails ==
    {<< >>,
     <<Directory, File(".go", 30), [File(".py", 10) EXCEPT !.stat_ok = FALSE],
       [File(".go", 30) EXCEPT !.stat_ok = FALSE]>>}

InitExtract ==
    /\ \E f \in ExtractKinds, tail \in ExtractTails : tree = <<f>> \o tail
    /\ budget_arg = None
    /\ max_files = ResolveBudget(budget_arg)
    /\ InitLocals
    /\ OthersIdle

SpecExtract == InitExtract /\ [][Next]_vars

\* Python files with more names of a kind than the display cap, with
\* exactly as many, and with none
Letters == <<"a", "b", "c", "d", "e", "f", "g", "h", "i", "j", "k", "l">>

LongPython(nf, nc, ni) ==
    [File(".py", 10) EXCEPT !.nodes =
        [k \in 1..nf |-> Node("FunctionDef", <<Letters[k]>>)]
           \o [k \in 1..nc |-> Node("ClassDef", <<Letters[k]>>)]
           \o [k \in 1..ni |-> Node("Import", <<Letters[k]>>)]]

LongFiles ==
    {LongPython(DisplayCap + 1, DisplayCap, 0),
     LongPython(DisplayCap + 2, 0, DisplayCap + 1)}

\* one file of any text, after it the entries that make no record: the
\* structured walk, then the flat walk
InitRender ==
    /\ \E f \in ExtractKinds \cup LongFiles, tail \in ExtractTails : tree = <<f>> \o tail
    /\ budget_arg = None
    /\ max_files = ResolveBudget(budget_arg)
    /\ InitLocals
    /\ OthersIdle

SpecRender == InitRender /\ [][NextFlat]_vars

\* the directories os.walk visits, top down: path itself, d, d/e, f, ...
DirectoryParts == << << >>, <<"d">>, <<"d", "e">>, <<"f">>, <<"f", "g">> >>

\* the files of a directory
FileLists == {SubSeq(Letters, 1, n) : n \in 0..MaxListFiles}

\* what os.walk yields: nothing for a path that is no directory, else the
\* first directories with some files each
Walks ==
    UNION {{[k \in 1..n |-> WalkTuple(DirectoryParts[k], fl[k])] : fl \in [1..n -> FileLists]} :
              n \in 0..MaxDirs}

InitList ==
    /\ walk \in Walks
    /\ max_entries \in 0..MaxListed
    /\ list_pc = "dir"
    /\ list_r = 0
    /\ list_f = 0
    /\ out = << >>
    /\ count = 0
    /\ WalkIdle
    /\ ZipIdle
    /\ CloneIdle

SpecList == InitList /\ [][NextList]_vars

(***************************************************************************)
(* Properties.                                                             *)
(***************************************************************************)
Done == pc = "done"

IsSet(opt) == opt # None

Min(a, b) == IF a < b THEN a ELSE b

\* the 0-based enumeration index of the entry with relative path rel
IndexOfPath(rel) ==
    CHOOSE k \in 0..(Len(tree) - 1) : RelativeTo(FilePath(k), RepoPath) = rel

EntryOfPath(rel) == tree[IndexOfPath(rel) + 1]

Paths(fs) == {fs[k].path : k \in DOMAIN fs}

EligibleEntries == {k \in DOMAIN tree : Eligible(tree[k])}

HasDeclarations(r) == r.functions # << >> \/ r.classes # << >> \/ r.imports # << >>

NumSkipped(fs) == Cardinality({k \in DOMAIN fs : IsSet(fs[k].skipped)})
NumErrors(fs) == Cardinality({k \in DOMAIN fs : IsSet(fs[k].error)})
NumPlain(fs) ==
    Cardinality({k \in DOMAIN fs : ~IsSet(fs[k].skipped) /\ ~IsSet(fs[k].error)})

\* C1: when the walk has returned, scanned + skipped + errors equals
\* total_considered, which equals len(files).
C1_CountersSumToTotal ==
    Done =>
        /\ result.stats.scanned + result.stats.skipped + result.stats.errors
              = result.stats.total_considered
        /\ result.stats.total_considered = Len(result.files)

\* C2: when the walk has returned, skipped counts the records with skipped
\* set, errors the records with error set, and scanned the records with
\* neither.
C2_CountersPartitionRecords ==
    Done =>
        /\ result.stats.skipped = NumSkipped(result.files)
        /\ result.stats.errors = NumErrors(result.files)
        /\ result.stats.scanned = NumPlain(result.files)

\* the three states of an extractor result (a dict with optional keys)
ParsedSuccessful(d) ==
    /\ {"functions", "classes", "imports"} \subseteq DOMAIN d
    /\ "skipped" \notin DOMAIN d
    /\ "error" \notin DOMAIN d
ParsedSkipped(d) ==
    /\ "skipped" \in DOMAIN d
    /\ "error" \notin DOMAIN d
    /\ DOMAIN d \cap {"functions", "classes", "imports"} = {}
ParsedError(d) ==
    /\ "error" \in DOMAIN d
    /\ "skipped" \notin DOMAIN d
    /\ DOMAIN d \cap {"functions", "classes", "imports"} = {}

\* the three states of a file record
RecordSuccessful(r) == ~IsSet(r.skipped) /\ ~IsSet(r.error)
RecordSkipped(r) == IsSet(r.skipped) /\ ~IsSet(r.error) /\ ~HasDeclarations(r)
RecordError(r) == IsSet(r.error) /\ ~IsSet(r.skipped) /\ ~HasDeclarations(r)

ExactlyOne(a, b, c) == (a /\ ~b /\ ~c) \/ (~a /\ b /\ ~c) \/ (~a /\ ~b /\ c)

\* C3: every result an extractor returns for a file of the tree, and every
\* record of files, is in exactly one of the states successful, skipped,
\* error; a record with a diagnostic has no declarations.
C3_ExactlyOneState ==
    /\ \A k \in EligibleEntries :
          \A d \in Dispatch(detect_language(tree[k].suffix), FilePath(k - 1), tree[k]) :
             ExactlyOne(ParsedSuccessful(d), ParsedSkipped(d), ParsedError(d))
    /\ \A k \in DOMAIN files :
          ExactlyOne(RecordSuccessful(files[k]), RecordSkipped(files[k]),
                     RecordError(files[k]))

\* a returned walk whose records show all three states, the successful one
\* with declarations
C3_Witness ==
    /\ Done
    /\ \E a, b, c \in DOMAIN result.files :
          /\ RecordSuccessful(result.files[a]) /\ HasDeclarations(result.files[a])
          /\ RecordSkipped(result.files[b])
          /\ RecordError(result.files[c])

\* C4: a walk over a tree with more supported-extension files than the
\* budget returns at most budget records.
C4_BudgetRespected ==
    (Done /\ max_files < Cardinality(EligibleEntries)) =>
        /\ result.stats.total_considered <= max_files
        /\ Len(result.files) <= max_files

\* a positive budget smaller than the number of supported files, used up
C4_Witness ==
    /\ Done
    /\ max_files > 0
    /\ max_files < Cardinality(EligibleEntries)
    /\ result.stats.total_considered = max_files

\* the record of a file is skipped, with no error and no declarations
SkippedRecord(r) ==
    /\ r.skipped = Some(TooLarge)
    /\ r.error = None
    /\ ~HasDeclarations(r)

\* C5 as stated: every file larger than MAX_FILE_BYTES yields a skipped
\* result with no declarations and no error.
C5_OversizedAlwaysSkipped ==
    \A k \in DOMAIN files :
        EntryOfPath(files[k].path).size > MAX_FILE_BYTES => SkippedRecord(files[k])

\* C5 amended: every file that can be opened and read and is larger than
\* MAX_FILE_BYTES yields a skipped result with no declarations and no
\* error, also when its text is malformed.
C5_ReadableOversizedSkipped ==
    /\ \A k \in EligibleEntries :
          (tree[k].readable /\ tree[k].size > MAX_FILE_BYTES) =>
             \A d \in Dispatch(detect_language(tree[k].suffix), FilePath(k - 1), tree[k]) :
                ParsedSkipped(d)
    /\ \A k \in DOMAIN files :
          LET e == EntryOfPath(files[k].path)
          IN (e.readable /\ e.size > MAX_FILE_BYTES) => SkippedRecord(files[k])

\* an oversized readable file with malformed text has been recorded
C5_Witness ==
    \E k \in DOMAIN files :
        LET e == EntryOfPath(files[k].path)
        IN /\ e.readable
           /\ e.size > MAX_FILE_BYTES
           /\ e.failure # None
           /\ SkippedRecord(files[k])

SizesNonIncreasing(L) == \A a, b \in DOMAIN L : a < b => L[a][2] >= L[b][2]

\* C6: when the walk has returned, largest_files has exactly
\* min(5, total_considered) entries, ordered by size non-increasing.
C6_LargestLengthAndOrder ==
    Done =>
        /\ Len(result.stats.largest_files) = Min(TopN, result.stats.total_considered)
        /\ SizesNonIncreasing(result.stats.largest_files)

\* C7: when the walk has returned, every entry of largest_files is the
\* (path, bytes) of a record of files, and no record missing from
\* largest_files is strictly larger than an entry of it.
C7_LargestAreTopRecords ==
    Done =>
        LET L == result.stats.largest_files
            fs == result.files
        IN /\ \A a \in DOMAIN L :
                 \E k \in DOMAIN fs : fs[k].path = L[a][1] /\ fs[k].bytes = L[a][2]
           /\ \A k \in DOMAIN fs :
                 (\A a \in DOMAIN L : L[a][1] # fs[k].path) =>
                    \A a \in DOMAIN L : fs[k].bytes <= L[a][2]

\* the candidates of the walk in enumeration order: the eligible files whose
\* size was read
Candidates ==
    {k \in 0..(Min(Len(tree), max_files) - 1) :
        Eligible(tree[k + 1]) /\ tree[k + 1].stat_ok}

InLargest(k, L) == \E a \in DOMAIN L : L[a][1] = RelativeTo(FilePath(k), RepoPath)

\* C8: when the walk has returned, entries of largest_files of equal size
\* are in enumeration order, and of two candidates of equal size the later
\* is in largest_files only if the earlier is.
C8_TiesKeepWalkOrder ==
    Done =>
        LET L == result.stats.largest_files
        IN /\ \A a, b \in DOMAIN L :
                 (a < b /\ L[a][2] = L[b][2]) => IndexOfPath(L[a][1]) < IndexOfPath(L[b][1])
           /\ \A x, y \in Candidates :
                 (x < y /\ tree[x + 1].size = tree[y + 1].size /\ InLargest(y, L))
                    => InLargest(x, L)

\* more than five candidates, two of equal size kept and one of that size cut
C8_Witness ==
    /\ Done
    /\ Cardinality(Candidates) > TopN
    /\ \E x, y, z \in Candidates :
          /\ x < y /\ y < z
          /\ tree[x + 1].size = tree[y + 1].size
          /\ tree[y + 1].size = tree[z + 1].size
          /\ InLargest(x, result.stats.largest_files)
          /\ InLargest(y, result.stats.largest_files)
          /\ ~InLargest(z, result.stats.largest_files)

Languages == {LANGUAGE_MAP[s] : s \in DOMAIN LANGUAGE_MAP} \cup {"unknown"}

NumOfLanguage(fs, l) == Cardinality({k \in DOMAIN fs : fs[k].language = l})

RECURSIVE SumOver(_, _)
SumOver(m, keys) ==
    IF keys = {} THEN 0
    ELSE LET k == CHOOSE x \in keys : TRUE IN m[k] + SumOver(m, keys \ {k})

\* C9: when the walk has returned, by_language maps each language to the
\* number of records with that language (skipped and errored included), has
\* no key for a language without record, and its counts sum to
\* total_considered.
C9_ByLanguageCountsRecords ==
    Done =>
        LET m == result.stats.by_language
        IN /\ DOMAIN m \subseteq Languages
           /\ \A l \in Languages :
                 IF NumOfLanguage(result.files, l) = 0
                 THEN l \notin DOMAIN m
                 ELSE l \in DOMAIN m /\ m[l] = NumOfLanguage(result.files, l)
           /\ SumOver(m, DOMAIN m) = result.stats.total_considered

\* two languages, one of them with two records, one record with a diagnostic
C9_Witness ==
    /\ Done
    /\ Cardinality(DOMAIN result.stats.by_language) >= 2
    /\ \E l \in DOMAIN result.stats.by_language : result.stats.by_language[l] >= 2
    /\ \E k \in DOMAIN result.files :
          IsSet(result.files[k].skipped) \/ IsSet(result.files[k].error)

\* C10: the second of two calls on the same tree with the same budget
\* returns the by_language and the set of paths of the first.
C10_SecondCallSameResult ==
    (Done /\ calls = 2) =>
        /\ result.stats.by_language = first.stats.by_language
        /\ Paths(result.files) = Paths(first.files)

\* a second call has returned two or more records
C10_Witness ==
    /\ Done
    /\ calls = 2
    /\ Len(result.files) >= 2
    /\ Len(first.files) >= 2

NoDuplicates(xs) == \A a, b \in DOMAIN xs : xs[a] = xs[b] => a = b

\* the list holds each name of the matches exactly once
DedupOf(names, matches) == NoDuplicates(names) /\ Range(names) = Range(matches)

RegexLanguages == {"javascript", "typescript", "java"}

\* C11: every declaration list the JavaScript, TypeScript and Java
\* extractors return, and the record built from it, holds each matched name
\* exactly once, however often and by whichever pattern it was matched.
C11_RegexListsDeduplicated ==
    /\ \A k \in EligibleEntries :
          detect_language(tree[k].suffix) \in RegexLanguages =>
             \A d \in Dispatch(detect_language(tree[k].suffix), FilePath(k - 1), tree[k]) :
                ParsedSuccessful(d) =>
                   /\ DedupOf(d.functions, tree[k].functions)
                   /\ DedupOf(d.classes, tree[k].classes)
                   /\ DedupOf(d.imports, tree[k].imports)
    /\ \A k \in DOMAIN files :
          (files[k].language \in RegexLanguages /\ RecordSuccessful(files[k])) =>
             LET e == EntryOfPath(files[k].path)
             IN /\ DedupOf(files[k].functions, e.functions)
                /\ DedupOf(files[k].classes, e.classes)
                /\ DedupOf(files[k].imports, e.imports)

\* a Java file matched a function name, a class name and an import twice each
C11_Witness ==
    \E k \in DOMAIN files :
        LET e == EntryOfPath(files[k].path)
        IN /\ files[k].language = "java"
           /\ e.functions = <<"foo", "foo">> /\ files[k].functions = <<"foo">>
           /\ e.classes = <<"A", "A">> /\ files[k].classes = <<"A">>
           /\ e.imports = <<"fs", "fs">> /\ files[k].imports = <<"fs">>

Occurrences(xs, x) == Cardinality({k \in DOMAIN xs : xs[k] = x})

FunctionDefsNamed(nodes, x) ==
    Cardinality({k \in DOMAIN nodes : nodes[k].type = "FunctionDef" /\ nodes[k].names[1] = x})

AllNames == {"foo", "bar", "os", "sys", "A", "Bar", "fs"}

Examined == 0..(Min(Len(tree), max_files) - 1)

\* an examined entry that reaches an extractor
Extracted(k) ==
    /\ Eligible(tree[k + 1])
    /\ tree[k + 1].stat_ok
    /\ detect_language(tree[k + 1].suffix) \in ExtractorLanguages

\* the description of the failure of the extraction of entry e, None if the
\* extraction does not fail
FailureOf(e) ==
    IF ~e.readable THEN Some("Permission denied")
    ELSE IF e.size > MAX_FILE_BYTES THEN None
    ELSE e.failure

\* the records the file at index k can get when it is walked alone
RecordsOf(k) ==
    {_summarize_file(d, RepoPath, tree[k + 1].size) :
        d \in Dispatch(detect_language(tree[k + 1].suffix), FilePath(k), tree[k + 1])}

RECURSIVE ExtractedFrom(_)
\* the indices of the extracted entries from k on, in enumeration order
ExtractedFrom(k) ==
    IF k \notin Examined THEN << >>
    ELSE (IF Extracted(k) THEN <<k>> ELSE << >>) \o ExtractedFrom(k + 1)

\* C13: when the walk has returned it has examined every entry within the
\* budget; every file whose extraction failed has a record with error set
\* to the failure's description; and files holds, in order, one record for
\* every examined file that reaches an extractor, each the record that file
\* gets on its own, whatever failed before it.
C13_ExtractionFailureContained ==
    Done =>
        /\ i = Min(Len(tree), max_files)
        /\ \A k \in Examined :
              (Extracted(k) /\ FailureOf(tree[k + 1]) # None) =>
                 \E r \in DOMAIN result.files :
                    /\ result.files[r].path = RelativeTo(FilePath(k), RepoPath)
                    /\ result.files[r].error = FailureOf(tree[k + 1])
        /\ Len(result.files) = Len(ExtractedFrom(0))
        /\ \A r \in DOMAIN result.files : result.files[r] \in RecordsOf(ExtractedFrom(0)[r])

\* a file whose extraction failed is followed by a file with declarations
C13_Witness ==
    /\ Done
    /\ \E a, b \in DOMAIN result.files :
          /\ a < b
          /\ IsSet(result.files[a].error)
          /\ RecordSuccessful(result.files[b])
          /\ HasDeclarations(result.files[b])

\* C14: when the walk has returned, every examined eligible file whose
\* stat() raised has a record in files with error set, and errors counts it.
C14_OutsideFailureRecorded ==
    Done =>
        \A k \in Examined :
           (Eligible(tree[k + 1]) /\ ~tree[k + 1].stat_ok) =>
              /\ \E r \in DOMAIN result.files :
                    /\ result.files[r].path = RelativeTo(FilePath(k), RepoPath)
                    /\ IsSet(result.files[r].error)
              /\ result.stats.errors >= 1

\* C15: when the structured walk and then the flat walk of the same tree
\* with the same budget have returned, the flat result has one display
\* string per record of files, in the same order, with the same path and
\* language.
C15_FlatRendersStructured ==
    (Done /\ flat_pc = "done") =>
        /\ Len(results) = Len(result.files)
        /\ \A k \in DOMAIN results :
              k \in DOMAIN result.files =>
                 /\ results[k].path = result.files[k].path
                 /\ results[k].language = result.files[k].language

\* C16: a walk called without a budget runs with the configured
\* DEFAULT_MAX_FILES.
C16_DefaultBudgetIsConfigured ==
    (Done /\ budget_arg = None) => max_files = DEFAULT_MAX_FILES

\* an entry that is a directory, has no supported extension, or has a
\* supported extension without extractor
NoContribution(e) ==
    \/ ~e.is_file
    \/ Lower(e.suffix) \notin SUPPORTED_CODE_EXTENSIONS
    \/ detect_language(e.suffix) \notin ExtractorLanguages

\* C17: a step of the walk over a directory, a file with an unsupported
\* extension or a file whose language has no extractor leaves files,
\* scanned, skipped, errors and by_language unchanged.
C17_NoContributionFrame ==
    [][(InLoop /\ NoContribution(Entry) /\ i' = i + 1) =>
          UNCHANGED <<files, scanned, skipped, errors, by_language>>]_vars

FixedLanguages == {"python", "javascript", "typescript", "java", "unknown"}

\* C18: every record of files has a language of the fixed enumeration, the
\* one detect_language gives for the file's suffix; records of files with
\* the same lowercased suffix have the same language.
C18_LanguageFromExtension ==
    /\ \A k \in DOMAIN files :
          /\ files[k].language \in FixedLanguages
          /\ files[k].language = detect_language(EntryOfPath(files[k].path).suffix)
    /\ \A a, b \in DOMAIN files :
          Lower(EntryOfPath(files[a].path).suffix) = Lower(EntryOfPath(files[b].path).suffix)
             => files[a].language = files[b].language

\* two records of files with the same lowercased suffix, one with
\* declarations and one with a diagnostic, and a TypeScript record
C18_Witness ==
    /\ Done
    /\ \E a, b, c \in DOMAIN result.files :
          /\ a # b
          /\ Lower(EntryOfPath(result.files[a].path).suffix)
                = Lower(EntryOfPath(result.files[b].path).suffix)
          /\ HasDeclarations(result.files[a])
          /\ ~RecordSuccessful(result.files[b])
          /\ result.files[c].language = "typescript"

\* the errors the examined entries account for
ErrorsOfExamined ==
    Cardinality({k \in Examined : Eligible(tree[k + 1]) /\ ~tree[k + 1].stat_ok})
       + Cardinality({r \in DOMAIN files :
                         ~Truthy(files[r].skipped) /\ Truthy(files[r].error)})

\* C19: every call of the walk returns; when it has returned it has
\* examined min(len(tree), budget) entries, the result holds the records
\* accumulated so far, and errors counts the failures of the examined
\* entries only (the cutoff adds none).
C19_WalkReturnsSilently ==
    /\ (pc = "loop") ~> Done
    /\ [](Done =>
            /\ i = Min(Len(tree), max_files)
            /\ result.files = files
            /\ Len(result.files) = Len(ExtractedFrom(0))
            /\ result.stats.errors = ErrorsOfExamined)

\* the budget cut the walk short after a record was made
C19_Witness ==
    /\ Done
    /\ max_files < Len(tree)
    /\ Len(result.files) >= 1
    /\ result.stats.errors = 0

\* path lies inside directory dir (dir itself or below it)
Inside(path, dir) ==
    /\ Len(dir) <= Len(path)
    /\ SubSeq(path, 1, Len(dir)) = dir

\* the member's resolved path does not lie inside the resolved extract_to
LeavesTarget(m) == ~Inside(Resolve(JoinPath(ExtractTo, m)), Resolve(ExtractTo))

\* C20: secure_extract writes no file outside extract_to, and an archive
\* with a member whose resolved path is not inside the resolved extract_to
\* is never extracted: the call raises with nothing written.
C20_NoTraversal ==
    /\ \A w \in written : Inside(w, ExtractTo)
    /\ (\E k \in DOMAIN archive : LeavesTarget(archive[k])) =>
          /\ zip_pc # "extracted"
          /\ written = {}

\* an examined entry that changes a counter of the structured walk
Contributing(k) ==
    /\ Eligible(tree[k + 1])
    /\ ~tree[k + 1].stat_ok \/ detect_language(tree[k + 1].suffix) \in ExtractorLanguages

\* an examined entry the flat walk renders
FlatContributing(k) ==
    /\ Eligible(tree[k + 1])
    /\ detect_language(tree[k + 1].suffix) \in ExtractorLanguages

\* C21: in both walks the enumeration index never passes the budget; the
\* counters and the records account for exactly the contributing entries
\* at the positions already examined, one each; so no record has the path
\* of an entry at a position at or beyond the budget.
C21_BudgetByIndex ==
    /\ i <= Min(Len(tree), max_files)
    /\ flat_i <= Min(Len(tree), max_files)
    /\ scanned + skipped + errors = Cardinality({k \in 0..(i - 1) : Contributing(k)})
    /\ Len(files) = Cardinality({k \in 0..(i - 1) : Extracted(k)})
    /\ Len(results) = Cardinality({k \in 0..(flat_i - 1) : FlatContributing(k)})
    /\ \A k \in DOMAIN files : IndexOfPath(files[k].path) < max_files
    /\ \A k \in DOMAIN results : IndexOfPath(results[k].path) < max_files
    /\ \A k \in DOMAIN largest_files : IndexOfPath(largest_files[k][1]) < max_files

\* both walks returned with fewer records than the budget, which a
\* directory used up, and left out an eligible file beyond the budget
C21_Witness ==
    /\ Done
    /\ flat_pc = "done"
    /\ max_files < Len(tree)
    /\ Extracted(max_files)
    /\ \E k \in Examined : ~tree[k + 1].is_file
    /\ Len(result.files) >= 1
    /\ Len(result.files) < max_files
    /\ Len(results) < max_files

\* the enumeration indices of the records of fs, in the order of fs
IndicesOf(fs) == [k \in DOMAIN fs |-> IndexOfPath(fs[k].path)]

StrictlyIncreasing(xs) == \A a, b \in DOMAIN xs : a < b => xs[a] < xs[b]

\* C22: the records of files, and of the returned result, are in
\* enumeration order (their enumeration indices strictly increase), so no
\* path occurs in two records.
C22_FilesInWalkOrder ==
    /\ StrictlyIncreasing(IndicesOf(files))
    /\ NoDuplicates([k \in DOMAIN files |-> files[k].path])
    /\ Done =>
          /\ StrictlyIncreasing(IndicesOf(result.files))
          /\ NoDuplicates([k \in DOMAIN result.files |-> result.files[k].path])

\* records returned in neither ascending nor descending order of size
C22_Witness ==
    /\ Done
    /\ \E a, b \in DOMAIN result.files :
          /\ a < b
          /\ result.files[a].bytes > result.files[b].bytes
    /\ \E a, b \in DOMAIN result.files :
          /\ a < b
          /\ result.files[a].bytes < result.files[b].bytes

\* xs is a prefix of ys
IsPrefix(xs, ys) == Len(xs) <= Len(ys) /\ SubSeq(ys, 1, Len(xs)) = xs

\* C23: a step of a walk (from the first entry to the return) keeps every
\* record of files as it is and where it is, appends at most one record,
\* and lowers none of scanned, skipped, errors and the counts of
\* by_language.
C23_AppendOnly ==
    [][(pc = "loop") =>
          /\ IsPrefix(files, files')
          /\ Len(files') <= Len(files) + 1
          /\ scanned' >= scanned
          /\ skipped' >= skipped
          /\ errors' >= errors
          /\ \A l \in DOMAIN by_language :
                l \in DOMAIN by_language' /\ by_language'[l] >= by_language[l]]_vars

\* a walk that holds two records, one with an error, one skipped, counted a
\* language twice, and has an entry left to process
C23_Witness ==
    /\ InLoop
    /\ Len(files) >= 2
    /\ \E a, b \in DOMAIN files : IsSet(files[a].error) /\ IsSet(files[b].skipped)
    /\ \E l \in DOMAIN by_language : by_language[l] >= 2
    /\ Extracted(i)

\* dict d is dict j with "language" set to typescript
Relabelled(d, j) ==
    /\ DOMAIN d = DOMAIN j
    /\ d.language = "typescript"
    /\ \A key \in DOMAIN j \ {"language"} : d[key] = j[key]

Labels(lines) == [k \in DOMAIN lines |-> lines[k][1]]

\* the sequences that keep some of the elements of xs, in the order of xs
RECURSIVE SubSequences(_)
SubSequences(xs) ==
    IF xs = << >> THEN {<< >>}
    ELSE LET rest == SubSequences(Tail(xs))
         IN rest \cup {<<Head(xs)>> \o r : r \in rest}

LineOf(lines, label) == CHOOSE l \in Range(lines) : l[1] = label

HasLine(lines, label) == \E l \in Range(lines) : l[1] = label

\* the lines under the header are right for extractor result d
LinesRender(lines, d) ==
    IF ParsedSkipped(d) THEN lines = <<Line("Skipped", <<d.skipped>>)>>
    ELSE IF ParsedError(d) THEN lines = <<Line("Error", <<d.error>>)>>
    ELSE /\ Labels(lines) \in SubSequences(<<"Functions", "Classes", "Imports">>)
         /\ HasLine(lines, "Functions") <=> d.functions # << >>
         /\ HasLine(lines, "Classes") <=> d.classes # << >>
         /\ HasLine(lines, "Imports") <=> d.imports # << >>
         /\ \A l \in Range(lines) : l[2] # << >>

\* C25: every display string of the flat walk has the relative path and the
\* language of its file in the header, and under it either exactly one
\* diagnostic line (Skipped or Error, with the extractor's text) or the
\* declaration lines in the order Functions, Classes, Imports, one for each
\* kind that is not empty; never a diagnostic and a declaration line,
\* never Skipped and Error.
C25_FlatStringLayout ==
    \A k \in DOMAIN results :
        LET s == results[k]
            x == IndexOfPath(s.path)
            e == tree[x + 1]
        IN /\ Eligible(e)
           /\ s.language = detect_language(e.suffix)
           /\ \E d \in Dispatch(detect_language(e.suffix), FilePath(x), e) :
                 LinesRender(s.lines, d)
           /\ \/ Labels(s.lines) \in {<<"Skipped">>, <<"Error">>}
              \/ Labels(s.lines) \in SubSequences(<<"Functions", "Classes", "Imports">>)

\* a display string with a Functions and an Imports line and no Classes line
C25_Witness ==
    /\ flat_pc = "done"
    /\ \E k \in DOMAIN results :
          /\ Labels(results[k].lines) = <<"Functions", "Imports">>
          /\ results[k].language = "java"

\* the declaration lists extractor result d and record r hold are the same
SameDeclarations(r, d) ==
    /\ r.functions = d.functions
    /\ r.classes = d.classes
    /\ r.imports = d.imports

\* the items of the line with this label, << >> when there is no such line
ItemsOf(lines, label) == IF HasLine(lines, label) THEN LineOf(lines, label)[2] ELSE << >>

\* C26: a record of files stores every name its extractor returned, more
\* than 10 of a kind included, and the flat string of a Python file lists
\* of each kind the first 10 names of the record (all of them when there
\* are 10 or fewer).
C26_CapAtPresentationOnly ==
    /\ \A r \in DOMAIN files :
          RecordSuccessful(files[r]) =>
             LET x == IndexOfPath(files[r].path)
             IN /\ \E d \in Dispatch(detect_language(tree[x + 1].suffix), FilePath(x), tree[x + 1]) :
                      SameDeclarations(files[r], d)
                /\ files[r].language = "python" =>
                      /\ files[r].functions = NodeNames(tree[x + 1].nodes, "FunctionDef")
                      /\ files[r].classes = NodeNames(tree[x + 1].nodes, "ClassDef")
                      /\ files[r].imports = NodeNames(tree[x + 1].nodes, "Import")
    /\ (Done /\ flat_pc = "done") =>
          \A k \in DOMAIN results :
             (k \in DOMAIN result.files
                 /\ result.files[k].language = "python"
                 /\ RecordSuccessful(result.files[k])) =>
                /\ ItemsOf(results[k].lines, "Functions")
                      = Take(result.files[k].functions, DisplayCap)
                /\ ItemsOf(results[k].lines, "Classes")
                      = Take(result.files[k].classes, DisplayCap)
                /\ ItemsOf(results[k].lines, "Imports")
                      = Take(result.files[k].imports, DisplayCap)

\* a file with 12 functions and 11 imports: the record holds them all, the
\* display string the first 10 of each
C26_Witness ==
    /\ Done
    /\ flat_pc = "done"
    /\ \E k \in DOMAIN results :
          /\ k \in DOMAIN result.files
          /\ Len(result.files[k].functions) = DisplayCap + 2
          /\ Len(result.files[k].imports) = DisplayCap + 1
          /\ Len(ItemsOf(results[k].lines, "Functions")) = DisplayCap
          /\ ItemsOf(results[k].lines, "Imports") = SubSeq(Letters, 1, DisplayCap)

\* the counter the structured walk adds a record to (lines 243-250)
CounterOf(r) ==
    IF Truthy(r.skipped) THEN "skipped"
    ELSE IF Truthy(r.error) THEN "errors"
    ELSE "scanned"

\* C27: when both walks of a tree have returned, the display string of a
\* file has a Skipped line iff the file's record was counted in skipped, an
\* Error line iff it was counted in errors, and neither iff it was counted
\* in scanned.
C27_SameClassification ==
    (Done /\ flat_pc = "done") =>
        \A k \in DOMAIN results :
           \A r \in DOMAIN result.files :
              result.files[r].path = results[k].path =>
                 /\ HasLine(results[k].lines, "Skipped") <=> CounterOf(result.files[r]) = "skipped"
                 /\ HasLine(results[k].lines, "Error") <=> CounterOf(result.files[r]) = "errors"
                 /\ (~HasLine(results[k].lines, "Skipped") /\ ~HasLine(results[k].lines, "Error"))
                       <=> CounterOf(result.files[r]) = "scanned"

RECURSIVE SizeOfFirst(_, _)
\* the declared uncompressed size of the first n members of arch together
SizeOfFirst(arch, n) ==
    IF n = 0 THEN 0 ELSE SizeOfFirst(arch, n - 1) + arch[n].file_size

\* the archive has a member the validation loop rejects
MustRaise(arch) ==
    \/ \E k \in DOMAIN arch : ~PassesPathCheck(arch[k])
    \/ SizeOfFirst(arch, Len(arch)) > MAX_EXTRACT_BYTES

\* C28: secure_extract writes nothing before every member has passed the
\* path test and the running declared size has stayed within
\* MAX_EXTRACT_BYTES; an archive with a member that fails either test is
\* never extracted, and when the call has raised nothing is written.
C28_ValidateBeforeExtract ==
    /\ zip_pc \in {"check", "raised"} => written = {}
    /\ written # {} =>
          /\ zip_k = Len(archive)
          /\ \A k \in DOMAIN archive : PassesPathCheck(archive[k])
          /\ total_uncompressed = SizeOfFirst(archive, Len(archive))
          /\ total_uncompressed <= MAX_EXTRACT_BYTES
    /\ MustRaise(archive) => zip_pc # "extracted"
    /\ zip_pc = "raised" => MustRaise(archive)

\* the call raised on the size at the third member, after two members had
\* passed, and nothing is written
C28_Witness ==
    /\ zip_pc = "raised"
    /\ zip_k = 2
    /\ total_uncompressed > MAX_EXTRACT_BYTES
    /\ written = {}

\* C29: when clone_github_repo has raised, target_dir holds exactly the
\* names it held before the call: nothing is left at the chosen clone_path
\* and nothing that was there has been removed; and a chosen clone_path is
\* never a name that target_dir held before the call.
C29_FailedCloneLeavesNothing ==
    /\ clone_path # None => clone_path[1] \notin before
    /\ clone_pc = "raised" =>
          /\ target = before
          /\ clone_path # None => clone_path[1] \notin target

\* the directory and file lines of a list of lines
EntryLines(ls) == {k \in DOMAIN ls : ls[k] \notin {Truncated, EmptyRepository}}

RECURSIVE EntriesOfFirst(_, _)
\* the number of directory and file lines the first n tuples of w stand for
EntriesOfFirst(w, n) ==
    IF n = 0 THEN 0
    ELSE EntriesOfFirst(w, n - 1) + (IF w[n].parts # << >> THEN 1 ELSE 0) + Len(w[n].files)

\* C30: with max_entries >= 1, list_repo_tree's list never holds more than
\* max_entries directory and file lines; the truncation marker occurs at
\* most once, as the last element of the returned list; the call returns
\* in the step in which the count reaches max_entries; a tree with fewer
\* entries is listed whole without marker; and a tree without entries
\* returns the single line for an empty repository.
C30_ListingLimited ==
    max_entries >= 1 =>
        /\ Cardinality(EntryLines(out)) = count
        /\ count <= max_entries
        /\ \A k \in DOMAIN out :
              out[k] = Truncated => (k = Len(out) /\ list_pc = "done")
        /\ count >= max_entries =>
              (list_pc = "done" /\ out # << >> /\ out[Len(out)] = Truncated)
        /\ list_pc = "done" =>
              LET total == EntriesOfFirst(walk, Len(walk))
              IN /\ total = 0 => out = <<EmptyRepository>>
                 /\ (0 < total /\ total < max_entries) =>
                       (count = total /\ Len(out) = total)
                 /\ total >= max_entries =>
                       (count = max_entries /\ Len(out) = max_entries + 1)

\* a tree with more entries than max_entries, cut after a directory line:
\* max_entries lines and the marker
C30_Witness ==
    /\ list_pc = "done"
    /\ max_entries >= 2
    /\ EntriesOfFirst(walk, Len(walk)) > max_entries
    /\ Len(out) = max_entries + 1
    /\ out[Len(out)] = Truncated
    /\ out[max_entries].text = "- d/"

====
